---- MODULE Spec2Model ----
(***************************************************************************)
(* The display-mode writer chain of allcat (cat -A/-n/-b/-s/-t/-v/-E).     *)
(*                                                                         *)
(* A chain is a sequence of writers, outermost first, ending in the final  *)
(* output.  Element i of the chain embeds element i+1 as its inner         *)
(* io.WriteCloser.  A byte is an integer 0..255, a chunk a sequence of     *)
(* bytes.  Every Write returns [chain, n, err]: the chain after the call,  *)
(* the accepted count and the failure (Nil when there is none).            *)
(***************************************************************************)
EXTENDS Integers, Sequences, FiniteSets, TLC

VARIABLES
    out,    \* the writer chain: main's `out` after the wrapping
    fed,    \* every byte handed to out.Write so far, in order
    data,   \* the chunk of the latest out.Write call
    n,      \* the accepted count that call returned
    err,    \* the failure that call returned to the files.Copy in progress
    calls,  \* the number of out.Write calls made
    Flags,  \* the command-line flags
    pc,     \* where main is: "parsed", "normalised", "copying"
    rest    \* the filenames main's loop has not yet reached

vars == <<out, fed, data, n, err, calls, Flags, pc, rest>>

-----------------------------------------------------------------------------
(* Bounds of the model. *)

MaxInput == 3       \* total bytes written to a chain built by main
MaxCalls == 2       \* Write calls on one chain
MaxEscInput == 2    \* total bytes written to a stage of mutator.go on its own
MaxFailInput == 2   \* total bytes written to a chain whose output fails
MaxBudget == 2      \* writes a failing output accepts before it fails
MaxPartial == 1     \* bytes a failing write still takes
MaxRest == 1        \* filenames after the first

-----------------------------------------------------------------------------
(* Bytes the code names. *)

NL == 10
TAB == 9
DEL == 127
AT == 64
CARET == 94
QUERY == 63
META == 77
DASH == 45
DOLLAR == 36
UPPER_I == 73

Byte == 0..255

Nil == "nil"
ErrSink == "write failed"

Result(chain, cnt, e) == [chain |-> chain, n |-> cnt, err |-> e]

-----------------------------------------------------------------------------
(* The field splitters.  i and last are the 0-based indices of the code;   *)
(* data[last:i+1] is SubSeq(data, last+1, i+1).                            *)

RECURSIVE splitLinesFrom(_, _, _, _)
splitLinesFrom(d, i, last, fields) ==
    IF i < Len(d)
    THEN IF d[i + 1] = NL
         THEN splitLinesFrom(d, i + 1, i + 1, Append(fields, SubSeq(d, last + 1, i + 1)))
         ELSE splitLinesFrom(d, i + 1, last, fields)
    ELSE IF last # Len(d)
         THEN Append(fields, SubSeq(d, last + 1, Len(d)))
         ELSE fields

splitLines(d) ==
    splitLinesFrom(d, 0, 0, <<>>)

\* Mutant: DEL and the bytes above it are taken for printable.
IsNonprint_OnlyControl(c) ==
    c < 32

IsNonprint(c) ==
    c < 32 \/ c >= 127

RECURSIVE splitOnNonprintFrom(_, _, _, _)
splitOnNonprintFrom(d, i, last, fields) ==
    IF i < Len(d)
    THEN IF IsNonprint(d[i + 1])
         THEN splitOnNonprintFrom(d, i + 1, i + 1, Append(fields, SubSeq(d, last + 1, i + 1)))
         ELSE splitOnNonprintFrom(d, i + 1, last, fields)
    ELSE IF last # Len(d)
         THEN Append(fields, SubSeq(d, last + 1, Len(d)))
         ELSE fields

splitOnNonprint(d) ==
    splitOnNonprintFrom(d, 0, 0, <<>>)

RECURSIVE splitOnByteFrom(_, _, _, _, _)
splitOnByteFrom(d, sep, i, last, fields) ==
    IF i < Len(d)
    THEN IF d[i + 1] = sep
         THEN splitOnByteFrom(d, sep, i + 1, i + 1, Append(fields, SubSeq(d, last + 1, i + 1)))
         ELSE splitOnByteFrom(d, sep, i + 1, last, fields)
    ELSE IF last # Len(d)
         THEN Append(fields, SubSeq(d, last + 1, Len(d)))
         ELSE fields

\* Mutant: the separator is taken to be the line terminator.
splitOnByte_Newline(d, sep) ==
    splitLines(d)

splitOnByte(d, sep) ==
    splitOnByteFrom(d, sep, 0, 0, <<>>)

-----------------------------------------------------------------------------
(* fmt.Fprintf(w, "%6d\t", lineno): the decimal digits, padded on the left *)
(* with spaces to a width of at least 6, then one tab.                     *)

RECURSIVE Itoa(_)
Itoa(k) ==
    IF k < 10 THEN <<48 + k>> ELSE Itoa(k \div 10) \o <<48 + (k % 10)>>

RECURSIVE PadLeft(_, _)
PadLeft(s, width) ==
    IF Len(s) >= width THEN s ELSE PadLeft(<<32>> \o s, width)

\* Mutant: the verb is "%d\t", without a width.
Sprintf6dTab_NoWidth(lineno) ==
    Itoa(lineno) \o <<TAB>>

Sprintf6dTab(lineno) ==
    PadLeft(Itoa(lineno), 6) \o <<TAB>>

-----------------------------------------------------------------------------
(* The writers. *)

\* The final output (the file getOutput opened).  budget is the number of
\* writes it will still accept; a negative budget never runs out.  A write
\* it refuses still takes up to `partial` bytes, though never all of them,
\* and is counted in `refused`.
File(budget) ==
    [kind |-> "File", buf |-> <<>>, budget |-> budget, partial |-> 0, refused |-> 0]

FailingFile(budget, partial) ==
    [File(budget) EXCEPT !.partial = partial]

ShortCount(f, d) ==
    IF Len(d) = 0 THEN 0
    ELSE IF f.partial < Len(d) - 1 THEN f.partial ELSE Len(d) - 1

FileWrite(chain, i, d) ==
    LET f == chain[i] IN
    IF f.budget = 0
    THEN Result([chain EXCEPT ![i] = [f EXCEPT !.buf = @ \o SubSeq(d, 1, ShortCount(f, d)),
                                               !.refused = @ + 1]],
                ShortCount(f, d), ErrSink)
    ELSE Result([chain EXCEPT ![i] = [f EXCEPT !.buf = @ \o d,
                                               !.budget = IF @ > 0 THEN @ - 1 ELSE @]],
                Len(d), Nil)

RECURSIVE WriteAt(_, _, _)

Fprintf6dTab(chain, i, lineno) ==
    WriteAt(chain, i, Sprintf6dTab(lineno))

\* Mutant: the flag is not carried to the next span.
EndsMidLine_NotCarried(line) ==
    FALSE

\* Mutant: the test for the terminator is inverted.
EndsMidLine_Inverted(line) ==
    Len(line) < 1 \/ line[Len(line)] = NL

\* w.suppress after a span is written
EndsMidLine(line) ==
    Len(line) < 1 \/ line[Len(line)] # NL

\* Mutant: the counter is not advanced.
nextLineno_Stuck(lineno) ==
    lineno

\* w.lineno++
nextLineno(lineno) ==
    lineno + 1

\* Mutant: an empty line is numbered like any other.
startsBlank_Never(line) ==
    FALSE

\* the nonblank variant's test for a span that is an empty line
startsBlank(line) ==
    Len(line) < 1 \/ line[1] = NL

RECURSIVE lineNumbererLoop(_, _, _, _, _)
lineNumbererLoop(chain, i, lines, k, cnt) ==
    IF k > Len(lines) THEN Result(chain, cnt, Nil)
    ELSE
    LET line == lines[k]
        numbered == ~chain[i].suppress
        c1 == IF numbered THEN [chain EXCEPT ![i].lineno = nextLineno(@)] ELSE chain
        r1 == IF numbered THEN Fprintf6dTab(c1, i + 1, c1[i].lineno)
                           ELSE Result(c1, 0, Nil)
    IN  IF r1.err # Nil THEN Result(r1.chain, cnt, r1.err)
        ELSE
        LET r2 == WriteAt(r1.chain, i + 1, line)
            cnt2 == cnt + r2.n
        IN  IF r2.err # Nil THEN Result(r2.chain, cnt2, r2.err)
            ELSE lineNumbererLoop([r2.chain EXCEPT ![i].suppress = EndsMidLine(line)],
                                  i, lines, k + 1, cnt2)

lineNumbererWrite(chain, i, d) ==
    lineNumbererLoop(chain, i, splitLines(d), 1, 0)

RECURSIVE nonblankLineNumbererLoop(_, _, _, _, _)
nonblankLineNumbererLoop(chain, i, lines, k, cnt) ==
    IF k > Len(lines) THEN Result(chain, cnt, Nil)
    ELSE
    LET line == lines[k]
        c0 == IF startsBlank(line)
              THEN [chain EXCEPT ![i].suppress = TRUE] ELSE chain
        numbered == ~c0[i].suppress
        c1 == IF numbered THEN [c0 EXCEPT ![i].lineno = nextLineno(@)] ELSE c0
        r1 == IF numbered THEN Fprintf6dTab(c1, i + 1, c1[i].lineno)
                           ELSE Result(c1, 0, Nil)
    IN  IF r1.err # Nil THEN Result(r1.chain, cnt, r1.err)
        ELSE
        LET r2 == WriteAt(r1.chain, i + 1, line)
            cnt2 == cnt + r2.n
        IN  IF r2.err # Nil THEN Result(r2.chain, cnt2, r2.err)
            ELSE nonblankLineNumbererLoop(
                     [r2.chain EXCEPT ![i].suppress = EndsMidLine(line)],
                     i, lines, k + 1, cnt2)

nonblankLineNumbererWrite(chain, i, d) ==
    nonblankLineNumbererLoop(chain, i, splitLines(d), 1, 0)

\* Mutant: the forwarded empty line is not remembered.
markBlank_Forgotten(chain, i) ==
    chain

\* w.lastWasBlank = true, after an empty line is forwarded
markBlank(chain, i) ==
    [chain EXCEPT ![i].lastWasBlank = TRUE]

\* w.lastWasBlank = false, before a terminated non-empty line is forwarded
clearBlank(chain, i) ==
    [chain EXCEPT ![i].lastWasBlank = FALSE]

\* Mutant: a dropped empty line is not counted as accepted.
squeezedCount_NotCounted(cnt) ==
    cnt

\* n++ for an empty line that is dropped
squeezedCount(cnt) ==
    cnt + 1

RECURSIVE blankSqueezerLoop(_, _, _, _, _)
blankSqueezerLoop(chain, i, lines, k, cnt) ==
    IF k > Len(lines) THEN Result(chain, cnt, Nil)
    ELSE
    LET line == lines[k] IN
    IF Len(line) < 1 THEN blankSqueezerLoop(chain, i, lines, k + 1, cnt)
    ELSE IF line[Len(line)] # NL
    THEN \* an unterminated span: written, lastWasBlank not touched
         LET r == WriteAt(chain, i + 1, line) IN
         IF r.err # Nil THEN Result(r.chain, cnt + r.n, r.err)
         ELSE blankSqueezerLoop(r.chain, i, lines, k + 1, cnt + r.n)
    ELSE IF line[1] = NL
    THEN IF chain[i].lastWasBlank
         THEN blankSqueezerLoop(chain, i, lines, k + 1, squeezedCount(cnt))
         ELSE LET r == WriteAt(chain, i + 1, line) IN
              IF r.err # Nil THEN Result(r.chain, cnt + r.n, r.err)
              ELSE blankSqueezerLoop(markBlank(r.chain, i), i, lines, k + 1, cnt + r.n)
    ELSE LET c1 == clearBlank(chain, i)
             r == WriteAt(c1, i + 1, line)
         IN  IF r.err # Nil THEN Result(r.chain, cnt + r.n, r.err)
             ELSE blankSqueezerLoop(r.chain, i, lines, k + 1, cnt + r.n)

blankSqueezerWrite(chain, i, d) ==
    blankSqueezerLoop(chain, i, splitLines(d), 1, 0)

\* Mutant: the replaced byte is counted before its replacement is written.
writeReplaced_CountedEarly(chain, i, short, seq, cnt) ==
    LET r1 == WriteAt(chain, i + 1, short)
        cnt1 == cnt + r1.n
    IN  IF r1.err # Nil THEN Result(r1.chain, cnt1, r1.err)
        ELSE LET r2 == WriteAt(r1.chain, i + 1, seq) IN
             Result(r2.chain, cnt1 + 1, r2.err)

\* Write(short), then Write(seq) in place of the byte that ended the field:
\* the byte counts as accepted only once seq is written.
writeReplaced(chain, i, short, seq, cnt) ==
    LET r1 == WriteAt(chain, i + 1, short)
        cnt1 == cnt + r1.n
    IN  IF r1.err # Nil THEN Result(r1.chain, cnt1, r1.err)
        ELSE LET r2 == WriteAt(r1.chain, i + 1, seq) IN
             IF r2.err # Nil THEN Result(r2.chain, cnt1, r2.err)
             ELSE Result(r2.chain, cnt1 + 1, Nil)

\* Mutant: the bound of the "M-^" case is off by one.
nonprintCase_OffByOne(c) ==
    IF c < 32 /\ c # NL /\ c # TAB THEN "ctrl"
    ELSE IF c < 127 THEN "plain"
    ELSE IF c = DEL THEN "del"
    ELSE IF c <= 128 + 32 THEN "metactrl"
    ELSE IF c = 255 THEN "metadel"
    ELSE "meta"

\* The switch of nonprintReplacer.Write, its cases in the order of the code.
nonprintCase(c) ==
    IF c < 32 /\ c # NL /\ c # TAB THEN "ctrl"
    ELSE IF c < 127 THEN "plain"
    ELSE IF c = DEL THEN "del"
    ELSE IF c < 128 + 32 THEN "metactrl"
    ELSE IF c = 255 THEN "metadel"
    ELSE "meta"

\* ctrl and meta are the two buffers the call allocates ("^@", "M-^@") and
\* overwrites in place, field after field.
RECURSIVE nonprintReplacerLoop(_, _, _, _, _, _, _)
nonprintReplacerLoop(chain, i, fields, k, cnt, ctrl, meta) ==
    IF k > Len(fields) THEN Result(chain, cnt, Nil)
    ELSE
    LET field == fields[k] IN
    IF Len(field) < 1
    THEN nonprintReplacerLoop(chain, i, fields, k + 1, cnt, ctrl, meta)
    ELSE
    LET c == field[Len(field)]
        short == SubSeq(field, 1, Len(field) - 1)
        case == nonprintCase(c)
        ctrl2 == CASE case = "ctrl" -> [ctrl EXCEPT ![2] = (c + AT) % 256]
                   [] case = "del" -> [ctrl EXCEPT ![2] = QUERY]
                   [] OTHER -> ctrl
        meta2 == CASE case = "metactrl" ->
                        [meta EXCEPT ![3] = CARET, ![4] = (c - 128 + AT) % 256]
                   [] case = "metadel" -> [meta EXCEPT ![3] = CARET, ![4] = QUERY]
                   [] case = "meta" -> [meta EXCEPT ![3] = (c - 128) % 256]
                   [] OTHER -> meta
        r == CASE case = "plain" ->
                    LET w == WriteAt(chain, i + 1, field) IN
                    Result(w.chain, cnt + w.n, w.err)
               [] case \in {"ctrl", "del"} -> writeReplaced(chain, i, short, ctrl2, cnt)
               [] case \in {"metactrl", "metadel"} ->
                    writeReplaced(chain, i, short, meta2, cnt)
               [] OTHER -> writeReplaced(chain, i, short, SubSeq(meta2, 1, 3), cnt)
    IN  IF r.err # Nil THEN r
        ELSE nonprintReplacerLoop(r.chain, i, fields, k + 1, r.n, ctrl2, meta2)

nonprintReplacerWrite(chain, i, d) ==
    nonprintReplacerLoop(chain, i, splitOnNonprint(d), 1, 0,
                         <<CARET, AT>>, <<META, DASH, CARET, AT>>)

RECURSIVE byteReplacerLoop(_, _, _, _, _)
byteReplacerLoop(chain, i, fields, k, cnt) ==
    IF k > Len(fields) THEN Result(chain, cnt, Nil)
    ELSE
    LET field == fields[k]
        w == chain[i]
    IN
    IF Len(field) < 1 THEN byteReplacerLoop(chain, i, fields, k + 1, cnt)
    ELSE IF field[Len(field)] # w.sep
    THEN LET r == WriteAt(chain, i + 1, field) IN
         IF r.err # Nil THEN Result(r.chain, cnt + r.n, r.err)
         ELSE byteReplacerLoop(r.chain, i, fields, k + 1, cnt + r.n)
    ELSE LET r == writeReplaced(chain, i, SubSeq(field, 1, Len(field) - 1), w.with, cnt) IN
         IF r.err # Nil THEN r
         ELSE byteReplacerLoop(r.chain, i, fields, k + 1, r.n)

byteReplacerWrite(chain, i, d) ==
    byteReplacerLoop(chain, i, splitOnByte(d, chain[i].sep), 1, 0)

\* Write on writer i of the chain: the method of its type.
WriteAt(chain, i, d) ==
    CASE chain[i].kind = "File" -> FileWrite(chain, i, d)
      [] chain[i].kind = "byteReplacer" -> byteReplacerWrite(chain, i, d)
      [] chain[i].kind = "lineNumberer" -> lineNumbererWrite(chain, i, d)
      [] chain[i].kind = "nonblankLineNumberer" -> nonblankLineNumbererWrite(chain, i, d)
      [] chain[i].kind = "blankSqueezer" -> blankSqueezerWrite(chain, i, d)
      [] chain[i].kind = "nonprintReplacer" -> nonprintReplacerWrite(chain, i, d)

-----------------------------------------------------------------------------
(* Construction.  A Go struct literal leaves the fields it does not name   *)
(* at their zero values.                                                   *)

byteReplacer(sep, with) == [kind |-> "byteReplacer", sep |-> sep, with |-> with]
lineNumberer == [kind |-> "lineNumberer", lineno |-> 0, suppress |-> FALSE]
nonblankLineNumberer == [kind |-> "nonblankLineNumberer", lineno |-> 0, suppress |-> FALSE]
blankSqueezer == [kind |-> "blankSqueezer", lastWasBlank |-> FALSE]
nonprintReplacer == [kind |-> "nonprintReplacer"]

NoFailure == 0 - 1

FlagSets ==
    [ShowEnds : BOOLEAN, Number : BOOLEAN, NumberNonblank : BOOLEAN,
     SqueezeBlank : BOOLEAN, ShowNonprinting : BOOLEAN, ShowTabs : BOOLEAN]

\* The alias flags -A, -e and -t, not given.
NoAlias ==
    [ShowAll |-> FALSE, ShowAllButTabs |-> FALSE, ShowAllButEnds |-> FALSE]

NoFlags ==
    [ShowEnds |-> FALSE, Number |-> FALSE, NumberNonblank |-> FALSE,
     SqueezeBlank |-> FALSE, ShowNonprinting |-> FALSE, ShowTabs |-> FALSE] @@ NoAlias

\* Every combination of the display flags as the command line gives them.
RawFlagSets ==
    [ShowAll : BOOLEAN, ShowAllButTabs : BOOLEAN, ShowAllButEnds : BOOLEAN,
     ShowEnds : BOOLEAN, Number : BOOLEAN, NumberNonblank : BOOLEAN,
     SqueezeBlank : BOOLEAN, ShowNonprinting : BOOLEAN, ShowTabs : BOOLEAN]

\* The switch at the top of main: the first alias flag that is set, and
\* only that one, turns on the flags it stands for.
normalise(F) ==
    IF F.ShowAll
    THEN [F EXCEPT !.ShowEnds = TRUE, !.ShowTabs = TRUE, !.ShowNonprinting = TRUE]
    ELSE IF F.ShowAllButTabs
    THEN [F EXCEPT !.ShowEnds = TRUE, !.ShowNonprinting = TRUE]
    ELSE IF F.ShowAllButEnds
    THEN [F EXCEPT !.ShowTabs = TRUE, !.ShowNonprinting = TRUE]
    ELSE F

\* main wraps the output innermost first, so the last stage it adds is the
\* outermost: the chain reads in the reverse of the order of the code.
mainOut(F) ==
       (IF F.ShowTabs THEN <<byteReplacer(TAB, <<CARET, UPPER_I>>)>> ELSE <<>>)
    \o (IF F.ShowNonprinting THEN <<nonprintReplacer>> ELSE <<>>)
    \o (IF F.SqueezeBlank THEN <<blankSqueezer>> ELSE <<>>)
    \o (CASE F.NumberNonblank -> <<nonblankLineNumberer>>
          [] F.Number /\ ~F.NumberNonblank -> <<lineNumberer>>
          [] OTHER -> <<>>)
    \o (IF F.ShowEnds THEN <<byteReplacer(NL, <<DOLLAR, NL>>)>> ELSE <<>>)
    \o <<File(NoFailure)>>

-----------------------------------------------------------------------------
(* The inputs. *)

SeqsUpTo(S, k) == UNION {[1..m -> S] : m \in 0..k}

\* One byte of each kind the stages tell apart: the line terminator, the
\* tab, a printable byte and a control byte.
Alphabet == {NL, TAB, 97, 1}

\* Stages of mutator.go on their own: every separator of Alphabet with a
\* sample of replacement sequences, and the non-printable escaper.
Withs == {<<>>, <<DOLLAR, NL>>, <<CARET, UPPER_I>>, <<NL>>, <<97, TAB, 97>>}

MutatorChains ==
    {<<byteReplacer(sep, with), File(NoFailure)>> : sep \in Alphabet, with \in Withs}
    \cup {<<nonprintReplacer, File(NoFailure)>>}

\* Inputs of the non-printable escaper: any byte 0..255 once, anywhere among
\* bytes of EscContext (a printable byte and a meta byte).
EscContext == {97, 200}

EscChunks(k, anyByte) ==
    SeqsUpTo(EscContext, k)
    \cup (IF anyByte /\ k >= 1
          THEN UNION {{pq[1] \o <<c>> \o pq[2] : c \in Byte \ EscContext} :
                      pq \in {x \in SeqsUpTo(EscContext, k - 1) \X SeqsUpTo(EscContext, k - 1) :
                                 Len(x[1]) + Len(x[2]) <= k - 1}}
          ELSE {})

OnlyContext(s) == \A j \in 1..Len(s) : s[j] \in EscContext

MainChunks == SeqsUpTo(Alphabet, MaxInput - Len(fed))

MutatorChunks ==
    IF out[1].kind = "nonprintReplacer"
    THEN EscChunks(MaxEscInput - Len(fed), OnlyContext(fed))
    ELSE SeqsUpTo(Alphabet, MaxInput - Len(fed))

-----------------------------------------------------------------------------
(* The state machine: one out.Write call per step, as files.Copy makes     *)
(* them from CatFile.                                                      *)

Fresh ==
    /\ fed = <<>>
    /\ data = <<>>
    /\ n = 0
    /\ err = Nil
    /\ calls = 0

Init ==
    /\ Flags \in {F @@ NoAlias : F \in FlagSets}
    /\ out = mainOut(Flags)
    /\ pc = "copying"
    /\ rest = 0
    /\ Fresh

\* files.Copy hands the next chunk to out.Write; it stops at the first
\* failure.
Write(chunk) ==
    /\ pc = "copying"
    /\ err = Nil
    /\ calls < MaxCalls
    /\ LET r == WriteAt(out, 1, chunk) IN
       /\ out' = r.chain
       /\ n' = r.n
       /\ err' = r.err
    /\ fed' = fed \o chunk
    /\ data' = chunk
    /\ calls' = calls + 1
    /\ UNCHANGED <<Flags, pc, rest>>

\* CatFile returns, after the end of its file or after a failure it has
\* logged, and main's loop calls it for the next filename with the same out.
CatFileNext ==
    /\ pc = "copying"
    /\ rest > 0
    /\ rest' = rest - 1
    /\ err' = Nil
    /\ UNCHANGED <<out, fed, data, n, calls, Flags, pc>>

Next == \E chunk \in MainChunks : Write(chunk)

Spec == Init /\ [][Next]_vars

InitMutator ==
    /\ out \in MutatorChains
    /\ Flags = NoFlags
    /\ pc = "copying"
    /\ rest = 0
    /\ Fresh

NextMutator == \E chunk \in MutatorChunks : Write(chunk)

SpecMutator == InitMutator /\ [][NextMutator]_vars

-----------------------------------------------------------------------------
(* A run whose output fails, over one or more filenames. *)

WithOutput(chain, f) == [chain EXCEPT ![Len(chain)] = f]

\* The flag sets of these runs: no stage, each stage alone, and all the
\* stages or all but one.
FailFlagSets ==
    {F \in FlagSets :
        LET on == Cardinality({k \in DOMAIN F : F[k]}) IN on <= 1 \/ on >= 5}

InitFail ==
    /\ Flags \in {F @@ NoAlias : F \in FailFlagSets}
    /\ out \in {WithOutput(mainOut(Flags), FailingFile(b, p)) :
                    b \in 0..MaxBudget, p \in 0..MaxPartial}
    /\ pc = "copying"
    /\ rest \in 0..MaxRest
    /\ Fresh

FailChunks == SeqsUpTo(Alphabet, MaxFailInput - Len(fed))

NextFail ==
    \/ \E chunk \in FailChunks : Write(chunk)
    \/ CatFileNext

SpecFail == InitFail /\ [][NextFail]_vars

-----------------------------------------------------------------------------
(* The start of main: the alias flags, then the wrapping of the output.    *)

InitFlags ==
    /\ Flags \in RawFlagSets
    /\ out = <<File(NoFailure)>>
    /\ pc = "parsed"
    /\ rest = 0
    /\ Fresh

Normalise ==
    /\ pc = "parsed"
    /\ Flags' = normalise(Flags)
    /\ pc' = "normalised"
    /\ UNCHANGED <<out, fed, data, n, err, calls, rest>>

Wrap ==
    /\ pc = "normalised"
    /\ out' = mainOut(Flags)
    /\ pc' = "copying"
    /\ UNCHANGED <<fed, data, n, err, calls, Flags, rest>>

NextFlags == Normalise \/ Wrap

SpecFlags == InitFlags /\ [][NextFlags]_vars

-----------------------------------------------------------------------------
(* What the claims speak of. *)

\* The chain as main constructed it: every writer's state at its zero value.
Unused(chain) ==
    [j \in 1..Len(chain) |->
        CASE chain[j].kind = "File" -> File(NoFailure)
          [] chain[j].kind = "lineNumberer" -> lineNumberer
          [] chain[j].kind = "nonblankLineNumberer" -> nonblankLineNumberer
          [] chain[j].kind = "blankSqueezer" -> blankSqueezer
          [] OTHER -> chain[j]]

Kinds(chain) == [j \in 1..Len(chain) |-> chain[j].kind]

\* The bytes that reached the final output.
Forwarded(chain) == chain[Len(chain)].buf

\* An unused copy of the chain, written `input` in one call.
OneCall(chain, input) == WriteAt(Unused(chain), 1, input).chain

\* The previous calls left the stream in the middle of a line, and the
\* latest call carried bytes.
ResumedMidLine ==
    /\ Len(data) > 0
    /\ Len(fed) > Len(data)
    /\ fed[Len(fed) - Len(data)] # NL

\* C1: a blankSqueezer forwards the same bytes whether the input arrives in
\* one Write call or split over several.
C1_SqueezerChunkInvariance ==
    Kinds(out) = <<"blankSqueezer", "File">>
        => Forwarded(out) = Forwarded(OneCall(out, fed))

\* C2: a lineNumberer, and a nonblankLineNumberer, forwards the same bytes
\* and ends with the same counter whether the input arrives in one Write
\* call or split over several.
C2_NumbererChunkInvariance ==
    Kinds(out) \in {<<"lineNumberer", "File">>, <<"nonblankLineNumberer", "File">>}
        => /\ Forwarded(out) = Forwarded(OneCall(out, fed))
           /\ out[1].lineno = OneCall(out, fed)[1].lineno

C2_Witness ==
    /\ Kinds(out) = <<"lineNumberer", "File">>
    /\ ResumedMidLine
    /\ data[Len(data)] = NL
    /\ out[1].lineno = 1

\* C3: whatever stages main enabled, the bytes reaching the final output do
\* not depend on how the input was split into Write calls.
C3_CompositionDeterminism ==
    Forwarded(out) = Forwarded(OneCall(out, fed))

\* What stage j of the chain forwards when it alone, unused, is written
\* `input` in one call.
StageAlone(chain, j, input) ==
    Forwarded(OneCall(<<chain[j], File(NoFailure)>>, input))

RECURSIVE ThroughStages(_, _, _)
ThroughStages(chain, j, input) ==
    IF j >= Len(chain) THEN input
    ELSE ThroughStages(chain, j + 1, StageAlone(chain, j, input))

\* C4: after a single Write call on the chain, the final output holds the
\* input passed through each enabled stage's whole-input transformation in
\* data-flow order.
C4_ChainIsComposition ==
    calls = 1 => Forwarded(out) = ThroughStages(out, 1, fed)

\* C5: a Write whose inner writes all succeed returns the length of its
\* chunk and no failure.
C5_AcceptedCount ==
    calls > 0 => (n = Len(data) /\ err = Nil)

C5_Witness ==
    /\ Kinds(out) = <<"blankSqueezer", "lineNumberer", "File">>
    /\ calls = 1
    /\ data = <<NL, NL>>
    /\ Forwarded(out) = Sprintf6dTab(1) \o <<NL>>
    /\ n = 2

\* The emission the escaping table gives for byte c.
TableEmission(c) ==
    IF c = NL \/ c = TAB \/ (32 <= c /\ c < 127) THEN <<c>>
    ELSE IF c < 32 THEN <<CARET, c + 64>>
    ELSE IF c = 127 THEN <<CARET, QUERY>>
    ELSE IF c < 160 THEN <<META, DASH, CARET, c - 128 + 64>>
    ELSE IF c <= 254 THEN <<META, DASH, c - 128>>
    ELSE <<META, DASH, CARET, QUERY>>

RECURSIVE TableEmissions(_)
TableEmissions(s) ==
    IF s = <<>> THEN <<>> ELSE TableEmission(Head(s)) \o TableEmissions(Tail(s))

\* C6: the non-printable escaper forwards, for every byte, the emission of
\* the escaping table, whatever the bytes around it and however the input
\* was split into calls.
C6_EscapingTable ==
    Kinds(out) = <<"nonprintReplacer", "File">>
        => Forwarded(out) = TableEmissions(fed)

C6_Witness ==
    /\ Kinds(out) = <<"nonprintReplacer", "File">>
    /\ calls = 1
    /\ fed = <<200, 129>>
    /\ Forwarded(out) = <<META, DASH, 72, META, DASH, CARET, 65>>

\* The index of the last byte of the logical line that starts at index j.
LineEnd(s, j) ==
    IF \E x \in j..Len(s) : s[x] = NL
    THEN CHOOSE x \in j..Len(s) : s[x] = NL /\ \A y \in j..(x - 1) : s[y] # NL
    ELSE Len(s)

\* s from index j, the start of a logical line, with prefix k+1, k+2, ... put
\* before each logical line.
RECURSIVE NumberedFrom(_, _, _)
NumberedFrom(s, j, k) ==
    IF j > Len(s) THEN <<>>
    ELSE Sprintf6dTab(k + 1) \o SubSeq(s, j, LineEnd(s, j))
            \o NumberedFrom(s, LineEnd(s, j) + 1, k + 1)

\* C7: a lineNumberer forwards the input with one prefix at the start of
\* every logical line, empty lines included, the k-th prefix carrying k.
C7_PlainNumbering ==
    Kinds(out) = <<"lineNumberer", "File">>
        => Forwarded(out) = NumberedFrom(fed, 1, 0)

C7_Witness ==
    /\ Kinds(out) = <<"lineNumberer", "File">>
    /\ ResumedMidLine
    /\ fed[1] = NL
    /\ out[1].lineno = 2

\* The same, with empty logical lines passed on without a prefix and
\* without advancing the counter.
RECURSIVE NonblankNumberedFrom(_, _, _)
NonblankNumberedFrom(s, j, k) ==
    IF j > Len(s) THEN <<>>
    ELSE IF s[j] = NL THEN <<NL>> \o NonblankNumberedFrom(s, j + 1, k)
    ELSE Sprintf6dTab(k + 1) \o SubSeq(s, j, LineEnd(s, j))
            \o NonblankNumberedFrom(s, LineEnd(s, j) + 1, k + 1)

NonEmptyLines(s) ==
    Cardinality({j \in 1..Len(s) : s[j] # NL /\ (j = 1 \/ s[j - 1] = NL)})

\* C8: a nonblankLineNumberer forwards an empty logical line without a
\* prefix and without advancing the counter, and puts one prefix before
\* every non-empty logical line, the k-th carrying k; a '\n' that opens a
\* chunk but ends a line begun earlier is not an empty line.
C8_NonblankNumbering ==
    Kinds(out) = <<"nonblankLineNumberer", "File">>
        => /\ Forwarded(out) = NonblankNumberedFrom(fed, 1, 0)
           /\ out[1].lineno = NonEmptyLines(fed)

C8_Witness ==
    /\ Kinds(out) = <<"nonblankLineNumberer", "File">>
    /\ ResumedMidLine
    /\ data = <<NL, NL>>
    /\ out[1].lineno = 1

\* Index j of s holds an empty line: a '\n' that begins a line.
IsEmptyLine(s, j) ==
    s[j] = NL /\ (j = 1 \/ s[j - 1] = NL)

\* s with every run of consecutive empty lines collapsed to its first.
RECURSIVE CollapsedFrom(_, _)
CollapsedFrom(s, j) ==
    IF j > Len(s) THEN <<>>
    ELSE IF IsEmptyLine(s, j) /\ j > 1 /\ IsEmptyLine(s, j - 1)
    THEN CollapsedFrom(s, j + 1)
    ELSE <<s[j]>> \o CollapsedFrom(s, j + 1)

NoTwoEmptyLines(s) ==
    \A j \in 2..Len(s) : ~(IsEmptyLine(s, j - 1) /\ IsEmptyLine(s, j))

\* C9: a blankSqueezer written its input in one call forwards it with every
\* run of empty lines collapsed to one; and over any calls what it has
\* forwarded never holds two consecutive empty lines.
C9_BlankSqueeze ==
    Kinds(out) = <<"blankSqueezer", "File">>
        => /\ calls = 1 => Forwarded(out) = CollapsedFrom(fed, 1)
           /\ NoTwoEmptyLines(Forwarded(out))

C9_Witness ==
    /\ Kinds(out) = <<"blankSqueezer", "File">>
    /\ calls = 1
    /\ fed = <<NL, NL, 97>>
    /\ Forwarded(out) = <<NL, 97>>

\* s with every sep replaced by the sequence with.
RECURSIVE Replaced(_, _, _)
Replaced(s, sep, with) ==
    IF s = <<>> THEN <<>>
    ELSE (IF Head(s) = sep THEN with ELSE <<Head(s)>>) \o Replaced(Tail(s), sep, with)

\* C10: a byteReplacer forwards the input with every separator replaced by
\* the replacement sequence; and a byteReplacer or a nonprintReplacer
\* forwards the same bytes however the input is split into calls.
C10_ByteReplacer ==
    /\ out[1].kind = "byteReplacer"
           => Forwarded(out) = Replaced(fed, out[1].sep, out[1].with)
    /\ Forwarded(out) = Forwarded(OneCall(out, fed))

C10_Witness ==
    /\ out[1] = byteReplacer(TAB, <<CARET, UPPER_I>>)
    /\ calls = 2
    /\ fed = <<97, TAB, 97>>
    /\ data = <<TAB, 97>>
    /\ Forwarded(out) = <<97, CARET, UPPER_I, 97>>

\* C12: once main has normalised the flags, -A has turned on
\* ShowNonprinting, ShowEnds and ShowTabs, -e has turned on ShowNonprinting
\* and ShowEnds, and -t has turned on ShowNonprinting and ShowTabs, whatever
\* other flags were given.
C12_FlagAliases ==
    pc # "parsed" =>
        /\ Flags.ShowAll
               => (Flags.ShowNonprinting /\ Flags.ShowEnds /\ Flags.ShowTabs)
        /\ Flags.ShowAllButTabs => (Flags.ShowNonprinting /\ Flags.ShowEnds)
        /\ Flags.ShowAllButEnds => (Flags.ShowNonprinting /\ Flags.ShowTabs)

Output(chain) == chain[Len(chain)]

IsPrefix(s, t) == Len(s) <= Len(t) /\ SubSeq(t, 1, Len(s)) = s

\* What the chain, as it stands, adds to the output when it is written
\* `input` in one call and no write fails.
Adds(chain, input) ==
    Forwarded(WriteAt(WithOutput(chain, File(NoFailure)), 1, input).chain)

\* A Write call during which the output refused a write.
C11_Refusal ==
    /\ calls' = calls + 1
    /\ Output(out').refused > Output(out).refused

\* C11: a Write call during which an inner write fails makes no further
\* inner write, returns that failure, and returns a count no greater than
\* the chunk that covers only bytes whose output has been forwarded: the
\* chain would have forwarded the counted bytes as a prefix of what the
\* call added to the output.
C11_FailurePropagation ==
    [][C11_Refusal =>
          /\ Output(out').refused = Output(out).refused + 1
          /\ err' = ErrSink
          /\ n' <= Len(data')
          /\ IsPrefix(Output(out).buf \o Adds(out, SubSeq(data', 1, n')),
                      Output(out').buf)]_vars

C11_Witness ==
    /\ Kinds(out) = <<"byteReplacer", "File">>
    /\ data = <<97, NL>>
    /\ calls = 1
    /\ err = ErrSink
    /\ n = 1
    /\ Forwarded(out) = <<97>>

\* C13: once the output has refused a write, and so a Write call on the
\* chain has returned a failure, no further Write call is made on the chain.
C13_FailureIsTerminal ==
    [][Output(out).refused > 0 => calls' = calls]_vars

\* The bytes of s after its last '\n': the unterminated span that ends it.
RECURSIVE TrailingSpan(_)
TrailingSpan(s) ==
    IF s = <<>> \/ s[Len(s)] = NL THEN <<>>
    ELSE Append(TrailingSpan(SubSeq(s, 1, Len(s) - 1)), s[Len(s)])

IsSuffix(s, t) ==
    Len(s) <= Len(t) /\ SubSeq(t, Len(t) - Len(s) + 1, Len(t)) = s

\* C14: after a blankSqueezer has written a chunk that ends in a span with
\* no '\n', the span has been forwarded as it is and the "previous line was
\* blank" flag is false.
C14_UnterminatedSpanClearsFlag ==
    (/\ Kinds(out) = <<"blankSqueezer", "File">>
     /\ calls > 0
     /\ TrailingSpan(data) # <<>>)
        => /\ IsSuffix(TrailingSpan(data), Forwarded(out))
           /\ out[1].lastWasBlank = FALSE

\* s without the bytes at the indices in S.
RECURSIVE WithoutFrom(_, _, _)
WithoutFrom(s, S, j) ==
    IF j > Len(s) THEN <<>>
    ELSE (IF j \in S THEN <<>> ELSE <<s[j]>>) \o WithoutFrom(s, S, j + 1)

\* The empty lines of s that come right after another empty line.
RepeatedEmptyLines(s) ==
    {j \in 2..Len(s) : IsEmptyLine(s, j) /\ IsEmptyLine(s, j - 1)}

EndsNonEmptyLine(s) ==
    Len(s) >= 2 /\ s[Len(s)] = NL /\ s[Len(s) - 1] # NL

\* C15: whatever the chunking, what a blankSqueezer has forwarded is its
\* input less some empty lines that each follow another empty line, so no
\* '\n' that ends a non-empty line is dropped; and after the '\n' of a
\* non-empty line the "previous line was blank" flag is false.
C15_OnlyRepeatedEmptyLinesDropped ==
    Kinds(out) = <<"blankSqueezer", "File">>
        => /\ \E S \in SUBSET RepeatedEmptyLines(fed) :
                  Forwarded(out) = WithoutFrom(fed, S, 1)
           /\ EndsNonEmptyLine(fed) => out[1].lastWasBlank = FALSE

MidLine(s) == s # <<>> /\ s[Len(s)] # NL

IsNumberer == Kinds(out) \in {<<"lineNumberer", "File">>, <<"nonblankLineNumberer", "File">>}

\* C16: for both numberers the suppress flag is true exactly when the bytes
\* written so far are not empty and do not end in '\n' (so it is false at
\* first); and a Write of an empty chunk changes neither the flag nor the
\* counter and forwards nothing.
C16_SuppressFlag ==
    /\ [](IsNumberer => out[1].suppress = MidLine(fed))
    /\ [][(IsNumberer /\ calls' = calls + 1 /\ data' = <<>>) => out' = out]_vars

C16_Witness ==
    /\ Kinds(out) = <<"nonblankLineNumberer", "File">>
    /\ calls = 2
    /\ data = <<>>
    /\ fed = <<97>>
    /\ out[1].suppress
    /\ out[1].lineno = 1

-----------------------------------------------------------------------------
(* A numberer that has already numbered many lines: its counter starts at  *)
(* one of the values below, so that the next prefixes are printed on both  *)
(* sides of the width of the "%6d" verb.  fed and the output hold only the *)
(* bytes written from then on.                                             *)

LinesAlreadyNumbered == {0, 8, 98, 99998, 999998, 999999, 1000000, 9999998}

NumberFlagSets ==
    {F \in FlagSets : /\ F.Number \/ F.NumberNonblank
                      /\ ~F.ShowEnds /\ ~F.SqueezeBlank
                      /\ ~F.ShowNonprinting /\ ~F.ShowTabs}

InitPrefix ==
    /\ Flags \in {F @@ NoAlias : F \in NumberFlagSets}
    /\ \E k \in LinesAlreadyNumbered :
           out = [mainOut(Flags) EXCEPT ![1].lineno = k]
    /\ pc = "copying"
    /\ rest = 0
    /\ Fresh

NextPrefix == \E chunk \in MainChunks : Write(chunk)

SpecPrefix == InitPrefix /\ [][NextPrefix]_vars

\* The lines of s that a numberer gives a prefix: every line for
\* lineNumberer, the lines that do not begin with '\n' for
\* nonblankLineNumberer.
PrefixedLines(s, nonblank) ==
    {j \in 1..Len(s) : /\ j = 1 \/ s[j - 1] = NL
                       /\ ~nonblank \/ s[j] # NL}

RECURSIVE DecimalValue(_)
DecimalValue(digits) ==
    IF digits = <<>> THEN 0
    ELSE 10 * DecimalValue(SubSeq(digits, 1, Len(digits) - 1))
         + (digits[Len(digits)] - 48)

\* p is spaces, then the decimal digits of k without a leading zero, then
\* one tab; the spaces fill the field up to 6 characters and there are none
\* when the digits are 6 or more.
IsPrefixOf(p, k) ==
    /\ Len(p) >= 7
    /\ p[Len(p)] = TAB
    /\ \E pad \in 0..5 :
           /\ \A j \in 1..pad : p[j] = 32
           /\ \A j \in (pad + 1)..(Len(p) - 1) : p[j] \in 48..57
           /\ p[pad + 1] # 48
           /\ DecimalValue(SubSeq(p, pad + 1, Len(p) - 1)) = k
           /\ pad > 0 => Len(p) = 7

FirstTab(s) ==
    CHOOSE j \in 1..Len(s) : s[j] = TAB /\ \A y \in 1..(j - 1) : s[y] # TAB

\* fwd is the lines of s, each line that takes a prefix preceded by the
\* prefix of the next counter value after k; with exact, every prefix is 7
\* bytes long.
RECURSIVE PrefixesFrom(_, _, _, _, _)
PrefixesFrom(fwd, s, k, nonblank, exact) ==
    IF s = <<>> THEN fwd = <<>>
    ELSE LET line == SubSeq(s, 1, LineEnd(s, 1))
             tail == SubSeq(s, Len(line) + 1, Len(s))
         IN  IF nonblank /\ s[1] = NL
             THEN /\ IsPrefix(line, fwd)
                  /\ PrefixesFrom(SubSeq(fwd, Len(line) + 1, Len(fwd)), tail, k, nonblank, exact)
             ELSE /\ \E j \in 1..Len(fwd) : fwd[j] = TAB
                  /\ LET p == SubSeq(fwd, 1, FirstTab(fwd))
                         after == SubSeq(fwd, Len(p) + 1, Len(fwd))
                     IN  /\ IsPrefixOf(p, k + 1)
                         /\ exact => Len(p) = 7
                         /\ IsPrefix(line, after)
                         /\ PrefixesFrom(SubSeq(after, Len(line) + 1, Len(after)), tail,
                                         k + 1, nonblank, exact)

PrefixesOf(exact) ==
    LET nonblank == out[1].kind = "nonblankLineNumberer"
        begun == Cardinality(PrefixedLines(fed, nonblank))
    IN  /\ out[1].lineno >= begun
        /\ PrefixesFrom(Forwarded(out), fed, out[1].lineno - begun, nonblank, exact)

\* C17 as stated: every prefix a numberer forwards is the counter in
\* decimal, right-justified in 6 characters, and one tab, 7 bytes in all,
\* for counter values of 1,000,000 and above too.
C17_PrefixIsSevenBytes ==
    PrefixesOf(TRUE)

\* C17, amended: every prefix a numberer forwards is the counter in decimal,
\* right-justified with spaces in a field of at least 6 characters, and one
\* tab: 7 bytes for a counter up to 999,999, and one byte more for every
\* further digit.
C17_PrefixIsAtLeastSevenBytes ==
    PrefixesOf(FALSE)

C17_Witness ==
    /\ Kinds(out) = <<"lineNumberer", "File">>
    /\ calls = 1
    /\ fed = <<97, NL, 97>>
    /\ out[1].lineno = 1000000
    /\ Len(Forwarded(out)) = 7 + 2 + 8 + 1

-----------------------------------------------------------------------------
(* Every stage alone over the output, so that each of the three splitters  *)
(* is applied to the chunks.                                               *)

SplitterChains ==
    MutatorChains
    \cup {<<w, File(NoFailure)>> : w \in {lineNumberer, nonblankLineNumberer, blankSqueezer}}

InitSplit ==
    /\ out \in SplitterChains
    /\ Flags = NoFlags
    /\ pc = "copying"
    /\ rest = 0
    /\ Fresh

NextSplit == \E chunk \in MutatorChunks : Write(chunk)

SpecSplit == InitSplit /\ [][NextSplit]_vars

RECURSIVE Concat(_)
Concat(fields) ==
    IF fields = <<>> THEN <<>> ELSE Head(fields) \o Concat(Tail(fields))

\* fields cuts d after every byte in Matching and nowhere else.
IsPartition(fields, d, Matching) ==
    /\ Concat(fields) = d
    /\ \A k \in 1..Len(fields) :
           /\ fields[k] # <<>>
           /\ k < Len(fields) => fields[k][Len(fields[k])] \in Matching
           /\ \A j \in 1..(Len(fields[k]) - 1) : fields[k][j] \notin Matching
    /\ (d # <<>> /\ \A j \in 1..Len(d) : d[j] \notin Matching) => fields = <<d>>
    /\ d = <<>> => fields = <<>>

\* C18: for every chunk, splitLines, splitOnByte and splitOnNonprint return
\* non-empty spans that follow one another and together are the chunk;
\* every span but perhaps the last ends on a matching byte, no span has a
\* matching byte before its last, a chunk without a matching byte is one
\* span and an empty chunk is no span.
C18_SplitterPartition ==
    /\ IsPartition(splitLines(data), data, {NL})
    /\ IsPartition(splitOnNonprint(data), data, (0..31) \cup (127..255))
    /\ \A sep \in Alphabet : IsPartition(splitOnByte(data, sep), data, {sep})

C18_Witness ==
    /\ out[1].kind = "nonprintReplacer"
    /\ calls = 2
    /\ data = <<DEL, 97>>
    /\ splitOnNonprint(data) = <<<<DEL>>, <<97>>>>

====
